---- MODULE Spec2Model ----
(***************************************************************************)
(* Model of the IMDb Top Picks add-on request handler.                     *)
(*                                                                         *)
(* Two revisions of the handler are modelled side by side:                 *)
(*   "extras" : src/unnamed/part_000 (v2.4.0, genre extras, dynamic        *)
(*              manifest genre options)                                    *)
(*   "fixed"  : src/api/index.js     (v2.0.0, fixed catalog)               *)
(*                                                                         *)
(* Text that the code inspects character by character (paths, genre        *)
(* names, upstream error messages, base64 text) is a TLA+ string.  The     *)
(* cookie, which the codec turns into UTF-8 bytes, is a sequence of        *)
(* UTF-16 code units (integers), the value of a JavaScript string.         *)
(***************************************************************************)
EXTENDS Integers, Sequences, FiniteSets, TLC

VARIABLES
    BASE_MANIFEST,  \* part_000: shared manifest template (module-level object)
    MANIFEST,       \* api/index.js: shared manifest object (module-level object)
    API_BODY,       \* shared request body handed to every axios.post
    req,            \* req[r]: the request r carries (variant, method, url)
    pc,             \* pc[r]: position of handler invocation r
    calls,          \* calls[r]: outbound axios.post calls issued for r
    reply,          \* reply[r]: what the outbound call of r settled with
    res,            \* res[r]: the response object of r
    locals,         \* locals[r]: hash, tail, cookie, ... of invocation r, kept across the await
    x,              \* codec: the cookie string under test
    enc,            \* codec: b64url.encode(x)
    dec,            \* codec: b64url.decode(enc)
    cpc             \* codec: position of the codec run

vars == <<BASE_MANIFEST, MANIFEST, API_BODY, req, pc, calls, reply, res, locals, x, enc, dec, cpc>>

handlerVars == <<BASE_MANIFEST, MANIFEST, API_BODY, req, pc, calls, reply, res, locals>>

codecVars == <<x, enc, dec, cpc>>

-----------------------------------------------------------------------------
(* Bounds *)

\* longest cookie string the codec is run on
MaxLen == 3

\* longest upstream edge list
MaxEdges == 2

\* concurrently handled requests
NumRequests == 2

-----------------------------------------------------------------------------
(* JavaScript string primitives on TLA+ strings *)

CharAt(s, i) == SubSeq(s, i, i)

\* s.includes(pat)
Includes(s, pat) ==
    \E i \in 1..(Len(s) - Len(pat) + 1) : SubSeq(s, i, i + Len(pat) - 1) = pat

\* s.startsWith(p)
StartsWith(s, p) == Len(s) >= Len(p) /\ SubSeq(s, 1, Len(p)) = p

\* s.endsWith(p)
EndsWith(s, p) == Len(s) >= Len(p) /\ SubSeq(s, Len(s) - Len(p) + 1, Len(s)) = p

\* s.split(sep) for a one-character separator: never empty, keeps empty pieces
RECURSIVE SplitFrom(_, _, _, _)
SplitFrom(s, sep, i, cur) ==
    IF i > Len(s) THEN <<cur>>
    ELSE IF CharAt(s, i) = sep THEN <<cur>> \o SplitFrom(s, sep, i + 1, "")
    ELSE SplitFrom(s, sep, i + 1, cur \o CharAt(s, i))

Split(s, sep) == SplitFrom(s, sep, 1, "")

\* arr.join(sep)
RECURSIVE Join(_, _)
Join(arr, sep) ==
    IF arr = <<>> THEN ""
    ELSE IF Len(arr) = 1 THEN arr[1]
    ELSE arr[1] \o sep \o Join(Tail(arr), sep)

\* arr.filter(Boolean) on an array of strings
RECURSIVE FilterNonEmpty(_)
FilterNonEmpty(arr) ==
    IF arr = <<>> THEN <<>>
    ELSE IF arr[1] = "" THEN FilterNonEmpty(Tail(arr))
    ELSE <<arr[1]>> \o FilterNonEmpty(Tail(arr))

\* s.replace(/\.json$/, '')
StripJson(s) == IF EndsWith(s, ".json") THEN SubSeq(s, 1, Len(s) - 5) ELSE s

\* s.replace(/a/g, b) for one-character a
RECURSIVE ReplaceAll(_, _, _)
ReplaceAll(s, a, b) ==
    IF s = "" THEN ""
    ELSE (IF CharAt(s, 1) = a THEN b ELSE CharAt(s, 1))
         \o ReplaceAll(SubSeq(s, 2, Len(s)), a, b)

Upper == "ABCDEFGHIJKLMNOPQRSTUVWXYZ"
Lower == "abcdefghijklmnopqrstuvwxyz"
Digits == "0123456789"

\* printable ASCII in code order: U+0020 .. U+005F and U+0061 .. U+007E
AsciiLo == " !\"#$%&'()*+,-./0123456789:;<=>?@ABCDEFGHIJKLMNOPQRSTUVWXYZ[\\]^_"
AsciiHi == "abcdefghijklmnopqrstuvwxyz{|}~"

IndexIn(alphabet, c) ==
    IF \E i \in 1..Len(alphabet) : CharAt(alphabet, i) = c
    THEN CHOOSE i \in 1..Len(alphabet) : CharAt(alphabet, i) = c
    ELSE 0

\* UTF-16 code unit of a printable ASCII character
CharCode(c) ==
    IF IndexIn(AsciiLo, c) > 0 THEN 31 + IndexIn(AsciiLo, c) ELSE 96 + IndexIn(AsciiHi, c)

\* s.toLowerCase()
RECURSIVE ToLowerCase(_)
ToLowerCase(s) ==
    IF s = "" THEN ""
    ELSE (IF IndexIn(Upper, CharAt(s, 1)) > 0
          THEN CharAt(Lower, IndexIn(Upper, CharAt(s, 1)))
          ELSE CharAt(s, 1))
         \o ToLowerCase(SubSeq(s, 2, Len(s)))

\* a < b in the order Array.prototype.sort() uses by default (code units)
RECURSIVE StrLess(_, _)
StrLess(a, b) ==
    IF b = "" THEN FALSE
    ELSE IF a = "" THEN TRUE
    ELSE IF CharAt(a, 1) = CharAt(b, 1)
         THEN StrLess(SubSeq(a, 2, Len(a)), SubSeq(b, 2, Len(b)))
         ELSE CharCode(CharAt(a, 1)) < CharCode(CharAt(b, 1))

\* Array.from(set).sort()
RECURSIVE SortedFromSet(_)
SortedFromSet(S) ==
    IF S = {} THEN <<>>
    ELSE LET m == CHOOSE a \in S : \A b \in S \ {a} : StrLess(a, b)
         IN <<m>> \o SortedFromSet(S \ {m})

-----------------------------------------------------------------------------
(* Base64 URL helpers *)

B64 == "ABCDEFGHIJKLMNOPQRSTUVWXYZabcdefghijklmnopqrstuvwxyz0123456789+/"

B64Char(v) == CharAt(B64, v + 1)

\* Buffer.from(s, 'utf8'): code units to UTF-8 bytes
RECURSIVE Utf8Encode(_)
Utf8Encode(s) ==
    IF s = <<>> THEN <<>>
    ELSE LET c == s[1] IN
         IF c < 128 THEN <<c>> \o Utf8Encode(Tail(s))
         ELSE IF c < 2048
              THEN <<192 + (c \div 64), 128 + (c % 64)>> \o Utf8Encode(Tail(s))
         ELSE IF c >= 55296 /\ c <= 56319 /\ Len(s) >= 2
                 /\ s[2] >= 56320 /\ s[2] <= 57343
              THEN LET cp == 65536 + (c - 55296) * 1024 + (s[2] - 56320)
                   IN <<240 + (cp \div 262144), 128 + ((cp \div 4096) % 64),
                        128 + ((cp \div 64) % 64), 128 + (cp % 64)>>
                      \o Utf8Encode(Tail(Tail(s)))
         ELSE IF c >= 55296 /\ c <= 57343
              THEN <<239, 191, 189>> \o Utf8Encode(Tail(s))
         ELSE <<224 + (c \div 4096), 128 + ((c \div 64) % 64), 128 + (c % 64)>>
              \o Utf8Encode(Tail(s))

\* buf.toString('base64'): padded standard base64 text
RECURSIVE Base64Encode(_)
Base64Encode(b) ==
    IF b = <<>> THEN ""
    ELSE IF Len(b) = 1
         THEN B64Char(b[1] \div 4) \o B64Char((b[1] % 4) * 16) \o "=="
    ELSE IF Len(b) = 2
         THEN B64Char(b[1] \div 4) \o B64Char((b[1] % 4) * 16 + (b[2] \div 16))
              \o B64Char((b[2] % 16) * 4) \o "="
    ELSE B64Char(b[1] \div 4) \o B64Char((b[1] % 4) * 16 + (b[2] \div 16))
         \o B64Char((b[2] % 16) * 4 + (b[3] \div 64)) \o B64Char(b[3] % 64)
         \o Base64Encode(SubSeq(b, 4, Len(b)))

\* s.replace(/=+$/, '')
RECURSIVE StripPadding(_)
StripPadding(s) ==
    IF s # "" /\ CharAt(s, Len(s)) = "=" THEN StripPadding(SubSeq(s, 1, Len(s) - 1))
    ELSE s

\* a copy-and-paste slip in the substitution chain: '/' also becomes '-'
b64url_encode_slip(s) ==
    StripPadding(ReplaceAll(ReplaceAll(Base64Encode(Utf8Encode(s)), "+", "-"), "/", "-"))

b64url_encode(s) ==
    StripPadding(ReplaceAll(ReplaceAll(Base64Encode(Utf8Encode(s)), "+", "-"), "/", "_"))

\* value of a base64 digit; Node's decoder also reads the URL-safe digits; -1: not a digit
B64Value(c) ==
    IF IndexIn(B64, c) > 0 THEN IndexIn(B64, c) - 1
    ELSE IF c = "-" THEN 62
    ELSE IF c = "_" THEN 63
    ELSE -1

\* the digits of the text up to the first '=', other characters skipped
RECURSIVE B64Digits(_)
B64Digits(s) ==
    IF s = "" \/ CharAt(s, 1) = "=" THEN <<>>
    ELSE IF B64Value(CharAt(s, 1)) < 0 THEN B64Digits(SubSeq(s, 2, Len(s)))
    ELSE <<B64Value(CharAt(s, 1))>> \o B64Digits(SubSeq(s, 2, Len(s)))

RECURSIVE BytesOfDigits(_)
BytesOfDigits(d) ==
    IF Len(d) < 2 THEN <<>>
    ELSE IF Len(d) = 2 THEN <<d[1] * 4 + (d[2] \div 16)>>
    ELSE IF Len(d) = 3
         THEN <<d[1] * 4 + (d[2] \div 16), (d[2] % 16) * 16 + (d[3] \div 4)>>
    ELSE <<d[1] * 4 + (d[2] \div 16), (d[2] % 16) * 16 + (d[3] \div 4),
           (d[3] % 4) * 64 + d[4]>>
         \o BytesOfDigits(SubSeq(d, 5, Len(d)))

\* Buffer.from(b, 'base64')
Base64Decode(s) == BytesOfDigits(B64Digits(s))

IsCont(b, i) == i <= Len(b) /\ b[i] >= 128 /\ b[i] <= 191

\* buf.toString('utf8'): ill-formed input becomes U+FFFD per maximal subpart
RECURSIVE Utf8DecodeFrom(_, _)
Utf8DecodeFrom(b, i) ==
    IF i > Len(b) THEN <<>>
    ELSE LET c == b[i] IN
         IF c < 128 THEN <<c>> \o Utf8DecodeFrom(b, i + 1)
         ELSE IF c >= 194 /\ c <= 223
              THEN IF IsCont(b, i + 1)
                   THEN <<(c - 192) * 64 + (b[i + 1] - 128)>> \o Utf8DecodeFrom(b, i + 2)
                   ELSE <<65533>> \o Utf8DecodeFrom(b, i + 1)
         ELSE IF c >= 224 /\ c <= 239
              THEN LET lo == IF c = 224 THEN 160 ELSE 128
                       hi == IF c = 237 THEN 159 ELSE 191
                   IN IF ~(i + 1 <= Len(b) /\ b[i + 1] >= lo /\ b[i + 1] <= hi)
                      THEN <<65533>> \o Utf8DecodeFrom(b, i + 1)
                      ELSE IF ~IsCont(b, i + 2)
                           THEN <<65533>> \o Utf8DecodeFrom(b, i + 2)
                           ELSE <<(c - 224) * 4096 + (b[i + 1] - 128) * 64 + (b[i + 2] - 128)>>
                                \o Utf8DecodeFrom(b, i + 3)
         ELSE IF c >= 240 /\ c <= 244
              THEN LET lo == IF c = 240 THEN 144 ELSE 128
                       hi == IF c = 244 THEN 143 ELSE 191
                   IN IF ~(i + 1 <= Len(b) /\ b[i + 1] >= lo /\ b[i + 1] <= hi)
                      THEN <<65533>> \o Utf8DecodeFrom(b, i + 1)
                      ELSE IF ~IsCont(b, i + 2)
                           THEN <<65533>> \o Utf8DecodeFrom(b, i + 2)
                      ELSE IF ~IsCont(b, i + 3)
                           THEN <<65533>> \o Utf8DecodeFrom(b, i + 3)
                      ELSE LET cp == (c - 240) * 262144 + (b[i + 1] - 128) * 4096
                                     + (b[i + 2] - 128) * 64 + (b[i + 3] - 128)
                           IN <<55296 + ((cp - 65536) \div 1024),
                                56320 + ((cp - 65536) % 1024)>>
                              \o Utf8DecodeFrom(b, i + 4)
         ELSE <<65533>> \o Utf8DecodeFrom(b, i + 1)

Utf8Decode(b) == Utf8DecodeFrom(b, 1)

\* while (b.length % 4) b += '='
RECURSIVE PadTo4(_)
PadTo4(b) == IF Len(b) % 4 # 0 THEN PadTo4(b \o "=") ELSE b

b64url_decode(b) ==
    Utf8Decode(Base64Decode(PadTo4(ReplaceAll(ReplaceAll(b, "-", "+"), "_", "/"))))

-----------------------------------------------------------------------------
(* Codec run: encode a cookie string, then decode the result *)

\* code units cookies are drawn from: 'a', '>', '?', U+00E9, U+20AC
CookieUnits == {97, 62, 63, 233, 8364}

RECURSIVE SeqsUpTo(_, _)
SeqsUpTo(S, n) ==
    IF n = 0 THEN {<<>>}
    ELSE LET shorter == SeqsUpTo(S, n - 1)
         IN shorter \cup {Append(s, e) : s \in {t \in shorter : Len(t) = n - 1}, e \in S}

CodecIdle == x = <<>> /\ enc = "" /\ dec = <<>> /\ cpc = "off"

CodecInit ==
    /\ x \in SeqsUpTo(CookieUnits, MaxLen)
    /\ enc = ""
    /\ dec = <<>>
    /\ cpc = "start"

Encode ==
    /\ cpc = "start"
    /\ enc' = b64url_encode(x)
    /\ cpc' = "encoded"
    /\ UNCHANGED <<x, dec>>

Decode ==
    /\ cpc = "encoded"
    /\ dec' = b64url_decode(enc)
    /\ cpc' = "decoded"
    /\ UNCHANGED <<x, enc>>

-----------------------------------------------------------------------------
(* Responses *)

\* a fresh http.ServerResponse: nothing written, no header set
FreshResponse == [ended |-> 0, statusCode |-> 200, headers |-> {}, body |-> [kind |-> "none"]]

\* res.setHeader(name, value)
SetHeader(headers, name, value) == {h \in headers : h[1] # name} \cup {<<name, value>>}

\* send without the CORS header
send_no_cors(r, body, type, code) ==
    [r EXCEPT !.statusCode = code,
              !.headers = SetHeader(@, "Content-Type", type),
              !.ended = @ + 1,
              !.body = IF StartsWith(type, "application/json")
                       THEN [kind |-> "json", value |-> body]
                       ELSE [kind |-> "raw", value |-> body]]

send(r, body, type, code) ==
    [r EXCEPT !.statusCode = code,
              !.headers = SetHeader(SetHeader(@, "Content-Type", type),
                                    "Access-Control-Allow-Origin", "*"),
              !.ended = @ + 1,
              !.body = IF StartsWith(type, "application/json")
                       THEN [kind |-> "json", value |-> body]
                       ELSE [kind |-> "raw", value |-> body]]

\* the OPTIONS branch: three headers, status 204, res.end() without a body
preflight(r) ==
    [r EXCEPT !.headers = SetHeader(SetHeader(SetHeader(@,
                              "Access-Control-Allow-Origin", "*"),
                              "Access-Control-Allow-Methods", "GET,OPTIONS"),
                              "Access-Control-Allow-Headers", "Content-Type"),
              !.statusCode = 204,
              !.ended = @ + 1]

PAGE == "<!doctype html><meta charset=utf8><title>IMDb Top Picks</title>"

-----------------------------------------------------------------------------
(* Module-level objects *)

BaseManifestValue ==
    [id |-> "community.imdb-top-picks",
     version |-> "2.4.0",
     name |-> "IMDb Top Picks",
     types |-> <<"movie", "series">>,
     catalogs |-> <<
        [id |-> "imdb-top-picks", type |-> "movie",
         extra |-> <<[name |-> "genre", isRequired |-> FALSE, options |-> <<>>]>>],
        [id |-> "imdb-top-picks", type |-> "series",
         extra |-> <<[name |-> "genre", isRequired |-> FALSE, options |-> <<>>]>>] >>,
     resources |-> <<"catalog", "meta">>]

ManifestValue ==
    [id |-> "community.imdb-top-picks",
     version |-> "2.0.0",
     name |-> "IMDb Top Picks",
     types |-> <<"movie", "series">>,
     catalogs |-> <<
        [id |-> "imdb-top-picks", type |-> "movie"],
        [id |-> "imdb-top-picks", type |-> "series"] >>,
     resources |-> <<"catalog", "meta">>]

ApiBodyValue ==
    [operationName |-> "TopPicksTab",
     variables |-> [first |-> 48, includeUserRating |-> TRUE, locale |-> "en-GB"],
     sha256Hash |-> "df290897e7878eb47c42b3fc06701793cb2c9701c620872794325c201a4e2502"]

-----------------------------------------------------------------------------
(* Upstream payloads *)

\* one entry of titleGenres.genres; hasGenre = FALSE: the entry has no genre object
GenreEntry(t) == [hasGenre |-> TRUE, text |-> t]
NoGenreObject == [hasGenre |-> FALSE, text |-> ""]

\* an edge; "" stands for an absent string field, <<>> for an absent number
TitleEdge(id, titleType, titleText, originalTitleText, year, genres) ==
    [hasTitle |-> TRUE, id |-> id, titleType |-> titleType, titleText |-> titleText,
     originalTitleText |-> originalTitleText, poster |-> "", year |-> year,
     rating |-> <<>>, genres |-> genres]

NoTitleEdge ==
    [hasTitle |-> FALSE, id |-> "", titleType |-> "", titleText |-> "",
     originalTitleText |-> "", poster |-> "", year |-> <<>>, rating |-> <<>>,
     genres |-> <<>>]

EdgePool ==
    { TitleEdge("tt0000001", "movie", "Heat", "", <<1995>>,
                <<GenreEntry("Drama"), GenreEntry("Action")>>),
      TitleEdge("tt0000002", "tvSeries", "", "Dark", <<>>,
                <<GenreEntry("Drama"), GenreEntry("action")>>),
      TitleEdge("tt0000003", "tvMiniSeries", "", "", <<>>,
                <<GenreEntry("Action"), GenreEntry("")>>),
      NoTitleEdge,
      TitleEdge("", "movie", "Untitled", "", <<>>, <<GenreEntry("Horror")>>),
      TitleEdge("tt0000006", "", "Broken", "", <<>>, <<NoGenreObject>>) }

\* upstream error lists (the messages of payload.errors)
ErrorLists ==
    { <<>>,
      <<"authentication required">>,
      <<"Rate limited">>,
      <<"Rate limited", "Please LOGIN again">>,
      <<"Internal error", "Upstream timeout">> }

\* response.data; path says how far data.titleRecommendations.edges exists:
\*   "none": no data object, "data": data without titleRecommendations,
\*   "tr": titleRecommendations without edges, "edges": an edge list
Payload(path, edges, hasErrors, errors) ==
    [path |-> path, edges |-> edges, hasErrors |-> hasErrors, errors |-> errors]

\* every error list beside an absent or empty edge list; a non-empty edge list
\* alone and beside one error list
Payloads(edgeLists) ==
    { Payload(p, <<>>, FALSE, <<>>) : p \in {"none", "data", "tr"} }
    \cup { Payload(p, <<>>, TRUE, e) : p \in {"none", "data", "tr"}, e \in ErrorLists }
    \cup { Payload("edges", l, FALSE, <<>>) : l \in edgeLists }
    \cup { Payload("edges", <<>>, TRUE, e) : e \in ErrorLists }
    \cup { Payload("edges", l, TRUE, <<"Rate limited">>) : l \in edgeLists }

\* how axios.post settles: rejected (timeout, network, non-2xx) or resolved
Rejected(status, message) ==
    [kind |-> "reject", status |-> status, message |-> message,
     data |-> Payload("none", <<>>, FALSE, <<>>)]

Resolved(data) == [kind |-> "resolve", status |-> "200", message |-> "", data |-> data]

NoReply == [kind |-> "none", status |-> "", message |-> "", data |-> Payload("none", <<>>, FALSE, <<>>)]

Rejections ==
    { Rejected("", "timeout of 12000ms exceeded"),
      Rejected("", "getaddrinfo ENOTFOUND api.graphql.imdb.com"),
      Rejected("500", "Request failed with status code 500") }

Outcomes(edgeLists) == Rejections \cup { Resolved(d) : d \in Payloads(edgeLists) }

\* response?.data?.data?.titleRecommendations?.edges || []
EdgesOf(data) == IF data.path = "edges" THEN data.edges ELSE <<>>

-----------------------------------------------------------------------------
(* fetchImdbData / scrape *)

Threw(message) == [threw |-> TRUE, message |-> message, data |-> Payload("none", <<>>, FALSE, <<>>)]
Returned(data) == [threw |-> FALSE, message |-> "", data |-> data]

\* the auth test without the i flag
IsAuthMessageCaseSensitive(msg) == Includes(msg, "auth") \/ Includes(msg, "login")

\* msg.match(/auth/i) || msg.match(/login/i)
IsAuthMessage(msg) ==
    Includes(ToLowerCase(msg), "auth") \/ Includes(ToLowerCase(msg), "login")

\* the throw on an upstream error list
UpstreamErrorThrow(errors) ==
    LET msg == Join(errors, ", ")
    IN IF IsAuthMessage(msg)
       THEN Threw("Login required or cookie expired.")
       ELSE Threw("IMDb GraphQL error: " \o msg)

\* the throw of the catch around axios.post
TransportThrow(outcome) ==
    Threw("Request to IMDb GraphQL failed: " \o outcome.status \o " " \o outcome.message)

fetchImdbData(outcome) ==
    IF outcome.kind = "reject" THEN TransportThrow(outcome)
    ELSE IF Len(EdgesOf(outcome.data)) = 0 /\ outcome.data.hasErrors
         THEN UpstreamErrorThrow(outcome.data.errors)
         ELSE Returned(outcome.data)

-----------------------------------------------------------------------------
(* extractGenresFromData, buildMeta, parseExtrasFromPath *)

Range(f) == {f[i] : i \in DOMAIN f}

\* the texts the double loop passes to genresSet.add, in encounter order
RECURSIVE TextsOfEntries(_)
TextsOfEntries(entries) ==
    IF entries = <<>> THEN <<>>
    ELSE (IF entries[1].hasGenre /\ entries[1].text # "" THEN <<entries[1].text>> ELSE <<>>)
         \o TextsOfEntries(Tail(entries))

RECURSIVE TextsOfEdges(_)
TextsOfEdges(edges) ==
    IF edges = <<>> THEN <<>>
    ELSE (IF edges[1].hasTitle THEN TextsOfEntries(edges[1].genres) ELSE <<>>)
         \o TextsOfEdges(Tail(edges))

\* genres returned as collected: no set, no sort
extractGenres_unsorted(data) == TextsOfEdges(EdgesOf(data))

extractGenresFromData(data) == SortedFromSet(Range(TextsOfEdges(EdgesOf(data))))

\* only tvSeries counts as a series
MetaType_no_miniseries(titleTypeId) == IF titleTypeId = "tvSeries" THEN "series" ELSE "movie"

MetaType(titleTypeId) ==
    IF titleTypeId = "tvSeries" \/ titleTypeId = "tvMiniSeries" THEN "series" ELSE "movie"

\* (t.titleGenres?.genres || []).map(g => g.genre.text).filter(Boolean)
RECURSIVE MetaGenres(_)
MetaGenres(entries) ==
    IF entries = <<>> THEN <<>>
    ELSE (IF entries[1].text # "" THEN <<entries[1].text>> ELSE <<>>)
         \o MetaGenres(Tail(entries))

NullMeta ==
    [tag |-> "null", id |-> "", type |-> "", name |-> "", poster |-> "", year |-> <<>>,
     genres |-> <<>>, posterShape |-> "", imdbRating |-> <<>>]

\* g.genre.text on an entry without a genre object: TypeError
ThrowingMeta == [NullMeta EXCEPT !.tag = "throw"]

buildMeta(edge) ==
    IF ~edge.hasTitle \/ edge.id = "" THEN NullMeta
    ELSE IF \E i \in DOMAIN edge.genres : ~edge.genres[i].hasGenre THEN ThrowingMeta
    ELSE [tag |-> "meta",
          id |-> edge.id,
          type |-> MetaType(edge.titleType),
          name |-> IF edge.titleText # "" THEN edge.titleText
                   ELSE IF edge.originalTitleText # "" THEN edge.originalTitleText
                   ELSE "IMDb title",
          poster |-> edge.poster,
          year |-> edge.year,
          genres |-> MetaGenres(edge.genres),
          posterShape |-> "poster",
          imdbRating |-> edge.rating]

\* the object the map callback of scrape returns: no genres, nothing that throws
scrapeMeta(edge) ==
    IF ~edge.hasTitle \/ edge.id = "" THEN NullMeta
    ELSE [tag |-> "meta",
          id |-> edge.id,
          type |-> MetaType(edge.titleType),
          name |-> IF edge.titleText # "" THEN edge.titleText
                   ELSE IF edge.originalTitleText # "" THEN edge.originalTitleText
                   ELSE "IMDb title",
          poster |-> edge.poster,
          year |-> edge.year,
          genres |-> <<>>,
          posterShape |-> "poster",
          imdbRating |-> edge.rating]

\* JavaScript array index: parts[i] exists
HasPart(parts, i) == i + 1 <= Len(parts)
Part(parts, i) == IF HasPart(parts, i) THEN parts[i + 1] ELSE ""

\* extras object after the forEach; later pairs overwrite earlier ones
RECURSIVE ExtrasOfPairs(_, _)
ExtrasOfPairs(pairs, extras) ==
    IF pairs = <<>> THEN extras
    ELSE LET kv == Split(pairs[1], "=")
             k == Part(kv, 0)
             v == Part(kv, 1)
         IN IF k # "" /\ v # ""
            THEN ExtrasOfPairs(Tail(pairs),
                     [n \in DOMAIN extras \cup {k} |-> IF n = k THEN v ELSE extras[n]])
            ELSE ExtrasOfPairs(Tail(pairs), extras)

NoExtras == [n \in {} |-> ""]

parseExtrasFromPath(path) ==
    LET parts == Split(path, "/")
        extrasStr == StripJson(Part(parts, 4))
    IN IF extrasStr # "" /\ Includes(extrasStr, "=")
       THEN ExtrasOfPairs(Split(extrasStr, ","), NoExtras)
       ELSE NoExtras

-----------------------------------------------------------------------------
(* handler: routing *)

\* const { pathname } = new URL(req.url, ...); urls here carry no query or fragment
Pathname(url) == url

\* pathname.split('/').filter(Boolean)
Segs(url) == FilterNonEmpty(Split(Pathname(url), "/"))

\* segs[0] && !segs[0].includes('.') ? segs[0] : ''
HashOf(segs) == IF segs # <<>> /\ ~Includes(segs[1], ".") THEN segs[1] ELSE ""

\* hash ? '/' + segs.slice(1).join('/') : pathname
TailOf(url, segs, hash) == IF hash # "" THEN "/" \o Join(Tail(segs), "/") ELSE Pathname(url)

\* which branch of the handler the route tail selects
Branch(tail) ==
    IF tail = "/" \/ tail = "/index.html" THEN "help"
    ELSE IF tail = "/manifest.json" THEN "manifest"
    ELSE IF StartsWith(tail, "/catalog/") THEN "catalog"
    ELSE IF StartsWith(tail, "/meta/") THEN "meta"
    ELSE "notfound"

\* the constants of one handler invocation: hash, tail, the decoded cookie
\* (hash ? b64url.decode(hash) : ''), tail.split('/') and the parsed extras
Locals(url) ==
    LET segs == Segs(url)
        hash == HashOf(segs)
        tail == TailOf(url, segs, hash)
    IN [hash |-> hash,
        tail |-> tail,
        branch |-> Branch(tail),
        cookie |-> IF hash # "" THEN b64url_decode(hash) ELSE <<>>,
        parts |-> Split(tail, "/"),
        extras |-> parseExtrasFromPath(tail)]

\* an invocation that returned before parsing the url
NoLocals ==
    [hash |-> "", tail |-> "", branch |-> "none", cookie |-> <<>>, parts |-> <<>>,
     extras |-> NoExtras]

\* where a handler invocation stands after a step, its response object, and the
\* manifest template of part_000 as the step leaves it
Step(position, r, template) == [pc |-> position, res |-> r, template |-> template]

-----------------------------------------------------------------------------
(* handler: manifest *)

InjectGenres(catalogs, genres) ==
    [i \in DOMAIN catalogs |->
        [catalogs[i] EXCEPT !.extra =
            <<[catalogs[i].extra[1] EXCEPT !.options = genres]>>]]

CustomizedManifest(template, genres, cookie, hash) ==
    [template EXCEPT !.catalogs = InjectGenres(template.catalogs, genres),
                     !.id = IF cookie # <<>> THEN template.id \o "." \o hash
                            ELSE template.id]

\* the manifest built on the template itself instead of a deep clone of it
CustomizeManifest_aliased(template, genres, cookie, hash) ==
    [manifest |-> CustomizedManifest(template, genres, cookie, hash),
     template |-> CustomizedManifest(template, genres, cookie, hash)]

\* part_000 lines 191-196: deep clone of the template, then the writes to the clone
CustomizeManifest(template, genres, cookie, hash) ==
    [manifest |-> CustomizedManifest(template, genres, cookie, hash),
     template |-> template]

\* part_000 manifest branch up to the fetch
ManifestEntry(l, r0, template) ==
    IF l.cookie # <<>> THEN Step("call", r0, template)
    ELSE LET c == CustomizeManifest(template, <<>>, l.cookie, l.hash)
         IN Step("done", send(r0, c.manifest, "application/json", 200), c.template)

\* part_000 manifest branch from the settled fetch on
ManifestAfterFetch(l, outcome, r0, template) ==
    LET f == fetchImdbData(outcome)
        genres == IF f.threw THEN <<>> ELSE extractGenresFromData(f.data)
        c == CustomizeManifest(template, genres, l.cookie, l.hash)
    IN Step("done", send(r0, c.manifest, "application/json", 200), c.template)

\* api/index.js manifest branch
FixedManifest(l, r0, shared) ==
    send(r0,
         IF l.cookie # <<>> THEN [shared EXCEPT !.id = shared.id \o "." \o l.hash]
         ELSE shared,
         "application/json", 200)

-----------------------------------------------------------------------------
(* handler: catalog *)

\* the source spells the dash as U+2013
MissingCookie == "Missing IMDb cookie - generate URL via root page."

\* part_000 catalog branch up to the fetch
CatalogEntry(l, r0, template) ==
    IF ~HasPart(l.parts, 3)
    THEN Step("threw", r0, template)   \* id.startsWith on undefined: TypeError
    ELSE IF ~StartsWith(Part(l.parts, 3), "imdb-top-picks")
         THEN Step("done", send(r0, [error |-> "Unknown catalog"], "application/json", 404),
                   template)
    ELSE IF l.cookie = <<>>
         THEN Step("done", send(r0, [error |-> MissingCookie], "application/json", 400),
                   template)
    ELSE Step("call", r0, template)

\* api/index.js catalog branch up to the fetch
FixedCatalogEntry(l, r0, template) ==
    IF ~(HasPart(l.parts, 3) /\ Part(l.parts, 3) = "imdb-top-picks.json")
    THEN Step("done", send(r0, [error |-> "Unknown catalog"], "application/json", 404),
              template)
    ELSE IF l.cookie = <<>>
         THEN Step("done", send(r0, [error |-> MissingCookie], "application/json", 400),
                   template)
    ELSE Step("call", r0, template)

\* a failed fetch answered by issuing the call again
CatalogFailed_retry(r0, message, template) == Step("call", r0, template)

\* the catch block of the catalog branch
CatalogFailed(r0, message, template) ==
    Step("done", send(r0, [error |-> message], "application/json", 503), template)

IsMeta(m) == m.tag = "meta"

\* imdbData.data.titleRecommendations.edges read without optional chaining
EdgesReadError(data) ==
    IF data.path = "none"
    THEN "Cannot read properties of undefined (reading 'titleRecommendations')"
    ELSE "Cannot read properties of undefined (reading 'edges')"

\* part_000 lines 222-234 on the data fetchImdbData returned
CatalogMetas(l, data) ==
    LET type == Part(l.parts, 2)
        built == [i \in DOMAIN EdgesOf(data) |-> buildMeta(EdgesOf(data)[i])]
        OfType(m) == m.type = type
        byType == SelectSeq(SelectSeq(built, IsMeta), OfType)
        reqGenre == ToLowerCase(l.extras["genre"])
        HasGenre(m) == \E i \in DOMAIN m.genres : ToLowerCase(m.genres[i]) = reqGenre
    IN IF data.path \in {"none", "data"}
       THEN [threw |-> TRUE, message |-> EdgesReadError(data), metas |-> <<>>]
       ELSE IF \E i \in DOMAIN built : built[i].tag = "throw"
            THEN [threw |-> TRUE,
                  message |-> "Cannot read properties of undefined (reading 'text')",
                  metas |-> <<>>]
       ELSE [threw |-> FALSE, message |-> "",
             metas |-> IF "genre" \in DOMAIN l.extras THEN SelectSeq(byType, HasGenre)
                       ELSE byType]

\* part_000 catalog branch from the settled fetch on
CatalogAfterFetch(l, outcome, r0, template) ==
    LET f == fetchImdbData(outcome)
    IN IF f.threw THEN CatalogFailed(r0, f.message, template)
       ELSE LET c == CatalogMetas(l, f.data)
            IN IF c.threw THEN CatalogFailed(r0, c.message, template)
               ELSE Step("done", send(r0, [metas |-> c.metas], "application/json", 200),
                         template)

\* api/index.js scrape on the settled call
scrape(outcome) ==
    LET edges == EdgesOf(outcome.data)
        built == [i \in DOMAIN edges |-> scrapeMeta(edges[i])]
    IN IF outcome.kind = "reject"
       THEN [threw |-> TRUE, message |-> TransportThrow(outcome).message, metas |-> <<>>]
       ELSE IF Len(edges) = 0 /\ outcome.data.hasErrors
            THEN [threw |-> TRUE,
                  message |-> UpstreamErrorThrow(outcome.data.errors).message,
                  metas |-> <<>>]
       ELSE IF Len(edges) = 0
            THEN [threw |-> TRUE, message |-> "No Top Picks found for this account.",
                  metas |-> <<>>]
       ELSE [threw |-> FALSE, message |-> "", metas |-> SelectSeq(built, IsMeta)]

\* api/index.js catalog branch from the settled fetch on
FixedCatalogAfterFetch(l, outcome, r0, template) ==
    LET s == scrape(outcome)
        type == Part(l.parts, 2)
        OfType(m) == m.type = type
    IN IF s.threw THEN CatalogFailed(r0, s.message, template)
       ELSE Step("done",
                 send(r0, [metas |-> SelectSeq(s.metas, OfType)], "application/json", 200),
                 template)

-----------------------------------------------------------------------------
(* handler: meta stub *)

\* /^tt\d+$/.test(imdbId)
IsImdbId(s) ==
    /\ Len(s) >= 3
    /\ SubSeq(s, 1, 2) = "tt"
    /\ \A i \in 3..Len(s) : IndexIn(Digits, CharAt(s, i)) > 0

MetaBranch(l, r0) ==
    LET imdbId == StripJson(Part(l.parts, 3))
    IN IF ~IsImdbId(imdbId)
       THEN send(r0, [error |-> "Bad IMDb id"], "application/json", 400)
       ELSE send(r0,
                 [meta |-> [id |-> imdbId,
                            type |-> Part(l.parts, 2),
                            name |-> "IMDb title " \o imdbId,
                            poster |-> "https://img.omdbapi.com/?i=" \o imdbId
                                       \o "&apikey=YOUR_OMDB_API_KEY"]],
                 "application/json", 200)

-----------------------------------------------------------------------------
(* handler: from the call of the handler to its first await or its return *)

\* part_000
handler_extras(l, r0, template) ==
    IF l.branch = "help" THEN Step("done", send(r0, PAGE, "text/html", 200), template)
    ELSE IF l.branch = "manifest" THEN ManifestEntry(l, r0, template)
    ELSE IF l.branch = "catalog" THEN CatalogEntry(l, r0, template)
    ELSE IF l.branch = "meta" THEN Step("done", MetaBranch(l, r0), template)
    ELSE Step("done", send(r0, "Not found", "text/plain", 404), template)

\* api/index.js
handler_fixed(l, r0, shared, template) ==
    IF l.branch = "help" THEN Step("done", send(r0, PAGE, "text/html", 200), template)
    ELSE IF l.branch = "manifest" THEN Step("done", FixedManifest(l, r0, shared), template)
    ELSE IF l.branch = "catalog" THEN FixedCatalogEntry(l, r0, template)
    ELSE IF l.branch = "meta" THEN Step("done", MetaBranch(l, r0), template)
    ELSE Step("done", send(r0, "Not found", "text/plain", 404), template)

-----------------------------------------------------------------------------
(* Requests *)

Requests == 1..NumRequests

Variants == {"extras", "fixed"}

Methods == {"GET", "OPTIONS", "POST"}

\* credential segments: "YQ" decodes to "a", "A" decodes to the empty string
CredSegments == {"YQ", "A"}

Types == {"movie", "series"}

\* genre values a client asks for; "" stands for a request without extras
GenreArgs == {"", "action", "Drama"}

\* the extras segment for genre g, alone or followed by a second pair
ExtrasText(g, more) == IF g = "" THEN "" ELSE "genre=" \o g \o more

ExtrasArgs == { ExtrasText(g, more) : g \in GenreArgs, more \in {"", ",year=2020"} }

CatalogPath(type, extrasStr) ==
    "/catalog/" \o type \o "/imdb-top-picks"
    \o (IF extrasStr = "" THEN "" ELSE "/" \o extrasStr) \o ".json"

CatalogUrl(seg, type, extrasStr) == "/" \o seg \o CatalogPath(type, extrasStr)

ManifestUrl(seg) == "/" \o seg \o "/manifest.json"

Urls ==
    { "/", "/index.html", "/manifest.json", "/favicon.ico", "/meta/movie/tt123.json" }
    \cup { CatalogPath(t, e) : t \in Types, e \in {"", "genre=Drama"} }
    \cup { CatalogUrl(seg, t, e) : seg \in CredSegments, t \in Types, e \in ExtrasArgs }
    \cup { ManifestUrl(seg) : seg \in CredSegments }
    \cup { "/" \o seg \o rest : seg \in CredSegments,
           rest \in { "", "/catalog/channel/imdb-top-picks.json", "/catalog/movie/other.json",
                      "/catalog/movie", "/catalog", "/meta/movie/tt123.json",
                      "/meta/movie/abc123.json", "/meta/movie" } }

EdgeLists == SeqsUpTo(EdgePool, MaxEdges)

AllOutcomes == Outcomes(EdgeLists)

NoRequest == [variant |-> "none", method |-> "", url |-> ""]

HandlerInit ==
    /\ BASE_MANIFEST = BaseManifestValue
    /\ MANIFEST = ManifestValue
    /\ API_BODY = ApiBodyValue
    /\ req = [r \in Requests |-> NoRequest]
    /\ pc = [r \in Requests |-> "idle"]
    /\ calls = [r \in Requests |-> 0]
    /\ reply = [r \in Requests |-> NoReply]
    /\ res = [r \in Requests |-> FreshResponse]
    /\ locals = [r \in Requests |-> NoLocals]

\* the runtime calls handler(req, res) with an OPTIONS request: lines 163-169
Preflight(r, variant, url) ==
    /\ pc[r] = "idle"
    /\ req' = [req EXCEPT ![r] = [variant |-> variant, method |-> "OPTIONS", url |-> url]]
    /\ pc' = [pc EXCEPT ![r] = "done"]
    /\ res' = [res EXCEPT ![r] = preflight(res[r])]
    /\ UNCHANGED <<BASE_MANIFEST, MANIFEST, API_BODY, calls, reply, locals>>

\* the runtime calls handler(req, res) with any other method: the handler runs to
\* its first await or to its return
Receive(r, variant, method, url) ==
    /\ pc[r] = "idle"
    /\ method # "OPTIONS"
    /\ req' = [req EXCEPT ![r] = [variant |-> variant, method |-> method, url |-> url]]
    /\ LET l == Locals(url)
           step == IF variant = "extras"
                   THEN handler_extras(l, res[r], BASE_MANIFEST)
                   ELSE handler_fixed(l, res[r], MANIFEST, BASE_MANIFEST)
       IN /\ locals' = [locals EXCEPT ![r] = l]
          /\ pc' = [pc EXCEPT ![r] = step.pc]
          /\ res' = [res EXCEPT ![r] = step.res]
          /\ BASE_MANIFEST' = step.template
    /\ UNCHANGED <<MANIFEST, API_BODY, calls, reply>>

\* axios.post(API_URL, API_BODY, ...): the call leaves, the handler is suspended
AxiosPost(r) ==
    /\ pc[r] = "call"
    /\ calls' = [calls EXCEPT ![r] = @ + 1]
    /\ pc' = [pc EXCEPT ![r] = "await"]
    /\ UNCHANGED <<BASE_MANIFEST, MANIFEST, API_BODY, req, reply, res, locals>>

\* the call of a manifest request settles and the handler runs to its return
ResumeManifest(r, outcome) ==
    /\ pc[r] = "await"
    /\ locals[r].branch = "manifest"
    /\ reply' = [reply EXCEPT ![r] = outcome]
    /\ LET step == ManifestAfterFetch(locals[r], outcome, res[r], BASE_MANIFEST)
       IN /\ pc' = [pc EXCEPT ![r] = step.pc]
          /\ res' = [res EXCEPT ![r] = step.res]
          /\ BASE_MANIFEST' = step.template
    /\ UNCHANGED <<MANIFEST, API_BODY, req, calls, locals>>

\* the call of a catalog request settles and the handler runs to its return
ResumeCatalog(r, outcome) ==
    /\ pc[r] = "await"
    /\ locals[r].branch = "catalog"
    /\ reply' = [reply EXCEPT ![r] = outcome]
    /\ LET step == IF req[r].variant = "extras"
                   THEN CatalogAfterFetch(locals[r], outcome, res[r], BASE_MANIFEST)
                   ELSE FixedCatalogAfterFetch(locals[r], outcome, res[r], BASE_MANIFEST)
       IN /\ pc' = [pc EXCEPT ![r] = step.pc]
          /\ res' = [res EXCEPT ![r] = step.res]
          /\ BASE_MANIFEST' = step.template
    /\ UNCHANGED <<MANIFEST, API_BODY, req, calls, locals>>

-----------------------------------------------------------------------------
(* Specifications *)

\* one request, every method, url and upstream outcome
Init == HandlerInit /\ CodecIdle

Next ==
    \/ \E v \in Variants, u \in Urls : Preflight(1, v, u) /\ UNCHANGED codecVars
    \/ \E v \in Variants, m \in Methods, u \in Urls :
           Receive(1, v, m, u) /\ UNCHANGED codecVars
    \/ AxiosPost(1) /\ UNCHANGED codecVars
    \/ \E o \in AllOutcomes : ResumeManifest(1, o) /\ UNCHANGED codecVars
    \/ \E o \in AllOutcomes : ResumeCatalog(1, o) /\ UNCHANGED codecVars

Spec == Init /\ [][Next]_vars

\* concurrently handled requests, suspended at their outbound calls
ConcUrls ==
    { "/manifest.json", ManifestUrl("YQ"), ManifestUrl("YWE-"),
      CatalogUrl("YQ", "series", "") }

ConcOutcomes ==
    { Rejected("", "timeout of 12000ms exceeded"),
      Resolved(Payload("edges",
          <<TitleEdge("tt0000001", "movie", "Heat", "", <<1995>>,
                      <<GenreEntry("Drama"), GenreEntry("Action")>>)>>, FALSE, <<>>)),
      Resolved(Payload("edges",
          <<TitleEdge("tt0000002", "tvSeries", "", "Dark", <<>>,
                      <<GenreEntry("Drama"), GenreEntry("action")>>)>>, FALSE, <<>>)) }

NextConc ==
    \/ \E r \in Requests, v \in Variants, u \in ConcUrls :
           Preflight(r, v, u) /\ UNCHANGED codecVars
    \/ \E r \in Requests, v \in Variants, u \in ConcUrls :
           Receive(r, v, "GET", u) /\ UNCHANGED codecVars
    \/ \E r \in Requests : AxiosPost(r) /\ UNCHANGED codecVars
    \/ \E r \in Requests, o \in ConcOutcomes : ResumeManifest(r, o) /\ UNCHANGED codecVars
    \/ \E r \in Requests, o \in ConcOutcomes : ResumeCatalog(r, o) /\ UNCHANGED codecVars

SpecConc == Init /\ [][NextConc]_vars

\* the codec alone
InitCodec == HandlerInit /\ CodecInit

NextCodec ==
    \/ Encode /\ UNCHANGED handlerVars
    \/ Decode /\ UNCHANGED handlerVars

SpecCodec == InitCodec /\ [][NextCodec]_vars

-----------------------------------------------------------------------------
(* Vocabulary of the claims *)

Finished(r) == pc[r] \in {"done", "threw"}

Responded(r) == res[r].ended >= 1

HeaderValues(r, name) == { h[2] : h \in { g \in res[r].headers : g[1] = name } }

IsErrorBody(r) == res[r].body.kind = "json" /\ DOMAIN res[r].body.value = {"error"}

IsMetasBody(r) == res[r].body.kind = "json" /\ DOMAIN res[r].body.value = {"metas"}

\* segments whose decoding is a non-empty cookie, and those decoding to ''
FullSegments == { seg \in CredSegments : b64url_decode(seg) # <<>> }
EmptySegments == { seg \in CredSegments : b64url_decode(seg) = <<>> }

AllTypes == Types \cup {"channel"}

\* catalog urls carrying a credential
CredCatalogUrls == { CatalogUrl(seg, t, e) : seg \in FullSegments, t \in AllTypes, e \in ExtrasArgs }

\* catalog urls without a credential, as far as the revision knows extras
NoCredCatalogUrls(variant) ==
    LET known == IF variant = "extras" THEN ExtrasArgs ELSE {""}
    IN { CatalogPath(t, e) : t \in Types, e \in known }
       \cup { CatalogUrl(seg, t, e) : seg \in EmptySegments, t \in Types, e \in known }

\* the three ways the upstream fetch fails
EdgesAbsentOrEmpty(o) == o.data.path # "edges" \/ o.data.edges = <<>>

FetchFailed(o) ==
    \/ o.kind = "reject"
    \/ o.kind = "resolve" /\ EdgesAbsentOrEmpty(o) /\ o.data.hasErrors

HasAuthMarker(o) ==
    \E i \in DOMAIN o.data.errors :
        \/ Includes(ToLowerCase(o.data.errors[i]), "auth")
        \/ Includes(ToLowerCase(o.data.errors[i]), "login")

FailureMessageFits(o, msg) ==
    IF o.kind = "reject" THEN StartsWith(msg, "Request to IMDb GraphQL failed")
    ELSE IF HasAuthMarker(o) THEN msg = "Login required or cookie expired."
    ELSE msg = "IMDb GraphQL error: " \o Join(o.data.errors, ", ")

-----------------------------------------------------------------------------
(* C1 *)

\* C1: a catalog request without a credential (no leading credential segment, or
\* one that decodes to the empty string) is answered 400 'Missing IMDb cookie'
\* and no outbound call is made.
C1_NoCredentialCatalogIs400 ==
    \A r \in Requests :
        (Finished(r) /\ req[r].method = "GET"
            /\ req[r].url \in NoCredCatalogUrls(req[r].variant))
        => /\ res[r].statusCode = 400
           /\ IsErrorBody(r)
           /\ StartsWith(res[r].body.value.error, "Missing IMDb cookie")
           /\ calls[r] = 0

-----------------------------------------------------------------------------
(* C2 *)

\* C2: whatever the method, path and upstream outcome, a request issues at most
\* one outbound call; a failed call is never issued again.
C2_AtMostOneOutboundCall == \A r \in Requests : calls[r] <= 1

C2_Witness ==
    \E r \in Requests :
        /\ pc[r] = "done"
        /\ calls[r] = 1
        /\ reply[r].kind = "reject"
        /\ res[r].statusCode = 503

-----------------------------------------------------------------------------
(* C3 *)

\* C3: on a catalog request with a non-empty credential, a failed upstream fetch
\* is answered 503 with a JSON body {error: message} and no metas; the message
\* is the login-required text when the edge list is absent or empty and an
\* upstream message carries 'auth' or 'login' in any case, 'IMDb GraphQL error: '
\* plus the joined messages when it carries no such marker, and the 'Request to
\* IMDb GraphQL failed' text on timeout or transport failure.
C3_FetchFailureIs503 ==
    \A r \in Requests :
        (pc[r] = "done" /\ req[r].url \in CredCatalogUrls
            /\ reply[r].kind # "none" /\ FetchFailed(reply[r]))
        => /\ res[r].statusCode = 503
           /\ IsErrorBody(r)
           /\ FailureMessageFits(reply[r], res[r].body.value.error)

C3_Witness ==
    \E r \in Requests :
        /\ pc[r] = "done"
        /\ req[r].url \in CredCatalogUrls
        /\ reply[r].kind = "resolve"
        /\ reply[r].data.errors = <<"Rate limited", "Please LOGIN again">>
        /\ res[r].statusCode = 503
        /\ IsErrorBody(r)
        /\ res[r].body.value.error = "Login required or cookie expired."

-----------------------------------------------------------------------------
(* C4 *)

\* the genre strings attached to the edges of a payload
GenreStrings(data) ==
    UNION { { e.genres[i].text : i \in { j \in DOMAIN e.genres : e.genres[j].hasGenre } } :
            e \in { d \in Range(EdgesOf(data)) : d.hasTitle } }

\* opts lists exactly the strings of S, each once, in ascending order
IsSortedListOf(opts, S) ==
    /\ Range(opts) = S
    /\ \A i \in 1..(Len(opts) - 1) : StrLess(opts[i], opts[i + 1])

\* every catalog of the manifest offers exactly opts as its genre options
OffersGenres(manifest, S) ==
    \A i \in DOMAIN manifest.catalogs :
        IsSortedListOf(manifest.catalogs[i].extra[1].options, S)

IsManifestResponse(r) ==
    /\ res[r].statusCode = 200
    /\ res[r].body.kind = "json"
    /\ "catalogs" \in DOMAIN res[r].body.value

\* C4 as stated: a manifest request carrying a credential segment gets 200 and an
\* id suffixed with '.' and the segment, whatever the upstream outcome; its genre
\* options are the distinct genre strings of all edges, sorted, when the fetch
\* succeeds, and empty when it fails.
C4_ManifestWithSegment ==
    \A r \in Requests : \A seg \in CredSegments :
        (Finished(r) /\ req[r].method = "GET" /\ req[r].url = ManifestUrl(seg))
        => /\ IsManifestResponse(r)
           /\ res[r].body.value.id = "community.imdb-top-picks." \o seg
           /\ req[r].variant = "extras" =>
                OffersGenres(res[r].body.value,
                    IF FetchFailed(reply[r]) THEN {} ELSE GenreStrings(reply[r].data))

\* C4 amended: the segment decodes to a non-empty cookie, and the genre options
\* are the distinct non-empty genre strings.
C4_ManifestWithCredential ==
    \A r \in Requests : \A seg \in FullSegments :
        (Finished(r) /\ req[r].method = "GET" /\ req[r].url = ManifestUrl(seg))
        => /\ IsManifestResponse(r)
           /\ res[r].body.value.id = "community.imdb-top-picks." \o seg
           /\ req[r].variant = "extras" =>
                /\ reply[r].kind # "none"
                /\ OffersGenres(res[r].body.value,
                       IF FetchFailed(reply[r]) THEN {}
                       ELSE GenreStrings(reply[r].data) \ {""})

C4_Witness ==
    \E r \in Requests : \E seg \in FullSegments :
        /\ pc[r] = "done"
        /\ req[r].variant = "extras"
        /\ req[r].url = ManifestUrl(seg)
        /\ reply[r].kind = "resolve"
        /\ IsManifestResponse(r)
        /\ res[r].body.value.catalogs[1].extra[1].options = <<"Action", "Drama", "action">>

-----------------------------------------------------------------------------
(* C5 *)

\* the type an edge maps to
MappedType(edge) ==
    IF edge.titleType \in {"tvSeries", "tvMiniSeries"} THEN "series" ELSE "movie"

\* the edge belongs in the catalog of type T, filtered by genre G ("": no filter)
BelongsInCatalog(edge, T, G) ==
    /\ edge.hasTitle
    /\ edge.id # ""
    /\ MappedType(edge) = T
    /\ G # "" => \E i \in DOMAIN edge.genres :
                     /\ edge.genres[i].hasGenre
                     /\ ToLowerCase(edge.genres[i].text) = ToLowerCase(G)

MetasMatchEdges(metas, edges, T, G) ==
    LET Keep(e) == BelongsInCatalog(e, T, G)
        kept == SelectSeq(edges, Keep)
    IN /\ Len(metas) = Len(kept)
       /\ \A i \in DOMAIN metas : metas[i].id = kept[i].id /\ metas[i].type = T

\* C5: the metas of a successful catalog request for type T and genre G are
\* exactly the edges that have a title with an id, map to T (series iff tvSeries
\* or tvMiniSeries) and, when G is given, carry a genre equal to G ignoring
\* case, in upstream order.
C5_MetasAreTheMatchingEdgesInOrder ==
    \A r \in Requests : \A seg \in FullSegments, T \in AllTypes, G \in GenreArgs :
        \A more \in {"", ",year=2020"} :
            (pc[r] = "done" /\ res[r].statusCode = 200
                /\ req[r].url = CatalogUrl(seg, T, ExtrasText(G, more)))
            => /\ IsMetasBody(r)
               /\ MetasMatchEdges(res[r].body.value.metas, EdgesOf(reply[r].data), T, G)

C5_Witness ==
    \E r \in Requests : \E seg \in FullSegments :
        /\ pc[r] = "done"
        /\ req[r].url = CatalogUrl(seg, "series", "genre=action")
        /\ res[r].statusCode = 200
        /\ IsMetasBody(r)
        /\ Len(res[r].body.value.metas) = 2
        /\ res[r].body.value.metas[1].id = "tt0000003"
        /\ res[r].body.value.metas[2].id = "tt0000002"

-----------------------------------------------------------------------------
(* C6 *)

HasCors(r) == HeaderValues(r, "Access-Control-Allow-Origin") = {"*"}

HasFittingContentType(r) ==
    IF res[r].body.kind = "json"
    THEN HeaderValues(r, "Content-Type") = {"application/json"}
    ELSE HeaderValues(r, "Content-Type") \in {{"text/html"}, {"text/plain"}}

\* C6 as stated: every response, the OPTIONS preflight included, carries
\* Access-Control-Allow-Origin: * and an explicit Content-Type.
C6_EveryResponseHasCorsAndContentType ==
    \A r \in Requests : Responded(r) => HasCors(r) /\ HasFittingContentType(r)

\* C6 amended: every response carries Access-Control-Allow-Origin: *; every
\* response other than the OPTIONS preflight carries an explicit Content-Type,
\* application/json for JSON bodies and text/html or text/plain otherwise; the
\* preflight has no body and no Content-Type.
C6_CorsAlwaysContentTypeUnlessPreflight ==
    \A r \in Requests :
        Responded(r) =>
            /\ HasCors(r)
            /\ IF req[r].method = "OPTIONS"
               THEN res[r].body.kind = "none" /\ HeaderValues(r, "Content-Type") = {}
               ELSE HasFittingContentType(r)

C6_Witness ==
    \E r \in Requests :
        /\ pc[r] = "done"
        /\ req[r].method = "GET"
        /\ res[r].statusCode = 503
        /\ HasCors(r)
        /\ HeaderValues(r, "Content-Type") = {"application/json"}

-----------------------------------------------------------------------------
(* C7 *)

\* the response request r gets when no other request exists
OwnResponse(r) ==
    LET l == Locals(req[r].url)
        first == IF req[r].variant = "extras"
                 THEN handler_extras(l, FreshResponse, BaseManifestValue)
                 ELSE handler_fixed(l, FreshResponse, ManifestValue, BaseManifestValue)
    IN IF req[r].method = "OPTIONS" THEN preflight(FreshResponse)
       ELSE IF first.pc # "call" THEN first.res
       ELSE IF l.branch = "manifest"
            THEN ManifestAfterFetch(l, reply[r], FreshResponse, BaseManifestValue).res
       ELSE IF req[r].variant = "extras"
            THEN CatalogAfterFetch(l, reply[r], FreshResponse, BaseManifestValue).res
       ELSE FixedCatalogAfterFetch(l, reply[r], FreshResponse, BaseManifestValue).res

\* C7: under any interleaving of requests suspended at their outbound calls the
\* shared manifest template and API request body are never modified, and each
\* response is the one its own method, path and upstream result determine.
C7_RequestsDoNotInteract ==
    /\ BASE_MANIFEST = BaseManifestValue
    /\ MANIFEST = ManifestValue
    /\ API_BODY = ApiBodyValue
    /\ \A r \in Requests : pc[r] = "done" => res[r] = OwnResponse(r)

C7_Witness ==
    \E r1 \in Requests, r2 \in Requests :
        /\ pc[r1] = "done" /\ pc[r2] = "done"
        /\ req[r1].variant = "extras" /\ req[r2].variant = "extras"
        /\ req[r1].url = ManifestUrl("YQ")
        /\ req[r2].url = ManifestUrl("YWE-")
        /\ reply[r1].kind = "resolve" /\ reply[r2].kind = "resolve"
        /\ res[r1].body.value.catalogs[1].extra[1].options = <<"Action", "Drama">>
        /\ res[r2].body.value.catalogs[1].extra[1].options = <<"Drama", "action">>
        /\ res[r1].body.value.id = "community.imdb-top-picks.YQ"
        /\ res[r2].body.value.id = "community.imdb-top-picks.YWE-"

-----------------------------------------------------------------------------
(* C8 *)

\* C8: in the extras-aware catalog handler, a call that succeeds at transport
\* level with no error list and an empty or absent edge list is answered 200 with
\* an empty metas list.
C8_NoEdgesNoErrorsIsEmptyCatalog ==
    \A r \in Requests :
        (pc[r] = "done" /\ req[r].variant = "extras" /\ req[r].url \in CredCatalogUrls
            /\ reply[r].kind = "resolve" /\ ~reply[r].data.hasErrors
            /\ EdgesAbsentOrEmpty(reply[r]))
        => /\ res[r].statusCode = 200
           /\ IsMetasBody(r)
           /\ res[r].body.value.metas = <<>>

-----------------------------------------------------------------------------
(* C9 *)

\* C9: for every cookie string x without NUL, b64url.decode(b64url.encode(x)) = x.
C9_CodecRoundTrips == cpc = "decoded" => dec = x

C9_Witness ==
    /\ cpc = "decoded"
    /\ Includes(enc, "_")
    /\ Len(enc) % 4 = 2
    /\ dec = x

-----------------------------------------------------------------------------
(* C10 *)

\* C10: for every method, path and upstream outcome the handler ends the
\* response exactly once, and never finishes or throws without a response.
C10_ExactlyOneResponse == \A r \in Requests : Finished(r) => res[r].ended = 1

====
